---- MODULE Spec2Model ----
(***************************************************************************)
(* Verification model of the Jetbot_os control backbone:                   *)
(*   - the process supervisor   (robot_project/jetbot_launcher.py)         *)
(*   - the navigation arbiter   (robot_project/modules/ros_navigation.py,  *)
(*                               modules/ros_navigation.py,                *)
(*                               modules/navigation.py)                    *)
(*   - the event buses          (modules/event_bus.py,                     *)
(*                               robot_project/core/event_bus.py)         *)
(* Each part has its own specification (SpecSupervisor, SpecArbiter,       *)
(* SpecBus, SpecEventBus); the variables of the other parts stay at their   *)
(* initial value.                                                          *)
(***************************************************************************)
EXTENDS Integers, Sequences, FiniteSets, TLC

VARIABLES
    \* ---- supervisor (JetbotLauncher) ----
    config,          \* ModuleConfig of every loaded module: max_retries, critical
    module_state,    \* Module.state
    process,         \* Module.process: "none" (None), "alive", "dead" (Popen whose process exited)
    retry_count,     \* Module.retry_count
    crash_count,     \* Module.crash_count
    shutdown_event,  \* JetbotLauncher.shutdown_event
    main,            \* main thread: position in run() / _signal_handler() / shutdown()
    mon,             \* monitor thread: position in monitor_modules() / shutdown()
    crashes,         \* number of process deaths injected so far
    stop_calls,      \* history: how often Module.stop() signalled the module's process
    restarts,        \* history: restart attempts since the module's last successful start
    perm_failed,     \* history: modules for which "Max retries exceeded" was reported
    escalation,      \* history: the critical escalation, if any
    \* ---- navigation arbiter ----
    impl,            \* which implementation runs: "robot_project", "modules", "navigation"
    ros,             \* TRUE: ROS backend initialised; FALSE: simulation fallback
    is_enabled,      \* ROSNavigationModule.is_enabled
    current_mode,    \* current_mode
    nav_state,       \* ROSNavigationModule.state (NavigationState)
    velocity,        \* last <<linear, angular>> handed to the motor backend, in 1/1000 units
    goal,            \* move_base goal: "none", "active", "cancelled" (preempt requested)
    obstacle_info,   \* ROSNavigationModule.obstacle_info
    lt,              \* bus listener thread: position in handle_mode_change
    laser,           \* rospy /scan callback thread: position in _laser_callback
    nav_last,        \* history: the operation that completed last and what it published
    \* ---- event bus (RedisEventBus) ----
    subscribers,     \* RedisEventBus.subscribers: event type -> list of callbacks
    redis_client,    \* "connected" or "none" (Redis missing or not reachable at start)
    broker_up,       \* whether the Redis server answers at the moment
    channels,        \* channels the pubsub object is subscribed to
    inbox,           \* Redis messages waiting for this process's listener thread
    calls,           \* history: callback invocations <<callback, event id, thread, source>>
    next_id,         \* number of the next event published
    sub,             \* the threads inside subscribe: position and event type
    bus_last,        \* history: the last call of publish / subscribe / get_history; for
                     \* get_history, event is the event published by the call just before
                     \* it, when the query covers that event's type
    \* ---- queue event bus (EventBus) ----
    queues,          \* EventBus._queues: the subscriber queues in creation order
    eb_next,         \* number of the next event published
    eb_last,         \* history: the last call of create_subscriber / publish
    \* ---- multiprocessing supervisor (ProcessManager) ----
    processes,       \* ProcessManager.processes: name -> [alive, restarts]
    running,         \* ProcessManager.running
    pm,              \* main process: position in the main block / monitor_loop()
    deaths,          \* number of process deaths injected so far
    \* ---- the arbiter on its two backends, fed the same inputs ----
    hardware,        \* ROSNavigationModule with ROS_AVAILABLE (move_base, laser scan)
    simulated,       \* ROSNavigationModule without ROS (SimulatedRobot)
    \* ---- RedisEventBus.publish, statement by statement ----
    pub,             \* the publishing thread's stack of publish() calls in progress
    \* ---- handle_mode_change on the bus's two delivery threads ----
    handlers         \* current_mode, is_enabled and each thread's position in the handler

navVars == <<impl, ros, is_enabled, current_mode, nav_state, velocity, goal, obstacle_info,
             lt, laser, nav_last>>

busVars == <<subscribers, redis_client, broker_up, channels, inbox, calls, next_id,
             sub, bus_last>>

ebVars == <<queues, eb_next, eb_last>>

pmVars == <<processes, running, pm, deaths>>

beVars == <<hardware, simulated>>

pubVars == <<pub>>

mhVars == <<handlers>>

supVars == <<config, module_state, process, retry_count, crash_count, shutdown_event,
             main, mon, crashes, stop_calls, restarts, perm_failed, escalation>>

\* what the actions of one component leave unchanged in the others
supOthers == <<navVars, busVars, ebVars, pmVars, beVars, pubVars, mhVars>>
navOthers == <<supVars, busVars, ebVars, pmVars, beVars, pubVars, mhVars>>
busOthers == <<supVars, navVars, ebVars, pmVars, beVars, pubVars, mhVars>>
ebOthers == <<supVars, navVars, busVars, pmVars, beVars, pubVars, mhVars>>
pmOthers == <<supVars, navVars, busVars, ebVars, beVars, pubVars, mhVars>>
beOthers == <<supVars, navVars, busVars, ebVars, pmVars, pubVars, mhVars>>
pubOthers == <<supVars, navVars, ebVars, pmVars, beVars, mhVars>>
mhOthers == <<supVars, navVars, busVars, ebVars, pmVars, beVars, pubVars>>

(***************************************************************************)
(*                              SUPERVISOR                                 *)
(***************************************************************************)

\* self.modules keeps the insertion order of the configuration
ModuleOrder == <<"face", "nav", "voice">>
Modules == {ModuleOrder[k] : k \in 1..Len(ModuleOrder)}

\* bound on the number of process deaths the environment injects
MaxCrashes == 2

\* module configurations the launcher is loaded with
ScenarioConfig ==
    [max_retries |-> [face |-> 2, nav |-> 1, voice |-> 2],
     critical    |-> [face |-> FALSE, nav |-> TRUE, voice |-> FALSE]]

NoRetryConfig ==
    [max_retries |-> [face |-> 1, nav |-> 0, voice |-> 0],
     critical    |-> [face |-> FALSE, nav |-> TRUE, voice |-> FALSE]]

Configs == {ScenarioConfig, NoRetryConfig}

\* outcomes of Module.start(): process spawned; script_path missing; Popen raised
StartOutcomes == {"ok", "missing", "error"}

\* the script_path test at the head of Module.start()
ScriptOutcomes == {"found", "missing"}

\* subprocess.Popen returns a process or raises
SpawnOutcomes == {"ok", "error"}

should_restart_off_by_one(m) == retry_count[m] <= config.max_retries[m]

should_restart(m) == retry_count[m] < config.max_retries[m]

is_alive(m) == process[m] = "alive"

escalates_always(m) == TRUE

\* "if module.config.critical:" a permanent failure shuts the launcher down
escalates(m) == config.critical[m]

\* the three results of Module.start() on the module's fields
start_state(m, outcome) ==
    CASE outcome = "ok"      -> "running"
      [] outcome = "missing" -> module_state[m]
      [] outcome = "error"   -> "failed"

start_process(m, outcome) ==
    IF outcome = "ok" THEN "alive" ELSE process[m]

\* Module.start() up to "self.state = STARTING": a missing script returns
\* False before the assignment
start_check(m, script) ==
    IF script = "found" THEN "starting" ELSE start_state(m, "missing")

SupInit ==
    /\ config \in Configs
    /\ module_state = [m \in Modules |-> "stopped"]
    /\ process = [m \in Modules |-> "none"]
    /\ retry_count = [m \in Modules |-> 0]
    /\ crash_count = [m \in Modules |-> 0]
    /\ shutdown_event = FALSE
    /\ main = [pc |-> "start_all", i |-> 1, ret |-> "none"]
    /\ mon = [pc |-> "not_started", i |-> 1]
    /\ crashes = 0
    /\ stop_calls = [m \in Modules |-> 0]
    /\ restarts = [m \in Modules |-> 0]
    /\ perm_failed = {}
    /\ escalation = [on |-> FALSE, by |-> "none", running |-> {}]

ProcessUp == main.pc # "exited"

\* a module's process dies unexpectedly
Crash(m) ==
    /\ ProcessUp
    /\ crashes < MaxCrashes
    /\ process[m] = "alive"
    /\ process' = [process EXCEPT ![m] = "dead"]
    /\ crashes' = crashes + 1
    /\ UNCHANGED <<supOthers, config, module_state, retry_count, crash_count, shutdown_event,
                   main, mon, stop_calls, restarts, perm_failed, escalation>>

\* the for loop of start_all_modules moves on; after the last module run()
\* starts the monitor thread and enters its wait loop
AfterStart ==
    /\ IF main.i < Len(ModuleOrder)
         THEN /\ main' = [main EXCEPT !.pc = "start_all", !.i = main.i + 1]
              /\ mon' = mon
         ELSE /\ main' = [main EXCEPT !.pc = "wait", !.i = 1]
              /\ mon' = [pc |-> "while", i |-> 1]

\* start_all_modules: module.start() of the next module, up to the Popen call
start_all_modules(script) ==
    /\ main.pc = "start_all"
    /\ LET m == ModuleOrder[main.i] IN
         module_state' = [module_state EXCEPT ![m] = start_check(m, script)]
    /\ IF script = "found"
         THEN /\ main' = [main EXCEPT !.pc = "sa_spawn"]
              /\ mon' = mon
         ELSE AfterStart
    /\ UNCHANGED <<supOthers, config, process, retry_count, crash_count, shutdown_event,
                   crashes, stop_calls, restarts, perm_failed, escalation>>

\* module.start(): "self.process = subprocess.Popen(...)" or the except clause
start_all_spawn(outcome) ==
    /\ main.pc = "sa_spawn"
    /\ LET m == ModuleOrder[main.i] IN
         /\ process' = [process EXCEPT ![m] = start_process(m, outcome)]
         /\ IF outcome = "ok"
              THEN /\ main' = [main EXCEPT !.pc = "sa_running"]
                   /\ UNCHANGED <<module_state, mon>>
              ELSE /\ module_state' = [module_state EXCEPT ![m] = start_state(m, outcome)]
                   /\ AfterStart
    /\ UNCHANGED <<supOthers, config, retry_count, crash_count, shutdown_event, crashes,
                   stop_calls, restarts, perm_failed, escalation>>

\* module.start(): "self.state = RUNNING", return True
start_all_running ==
    /\ main.pc = "sa_running"
    /\ LET m == ModuleOrder[main.i] IN
         module_state' = [module_state EXCEPT ![m] = start_state(m, "ok")]
    /\ AfterStart
    /\ UNCHANGED <<supOthers, config, process, retry_count, crash_count, shutdown_event,
                   crashes, stop_calls, restarts, perm_failed, escalation>>

\* SIGINT/SIGTERM: the handler runs in the main thread and calls shutdown()
signal_handler ==
    /\ main.pc \in {"start_all", "sa_spawn", "sa_running", "wait"}
    /\ main' = [main EXCEPT !.pc = "sd_check", !.ret = main.pc]
    /\ UNCHANGED <<supOthers, config, module_state, process, retry_count, crash_count, shutdown_event,
                   mon, crashes, stop_calls, restarts, perm_failed, escalation>>

\* run(): the wait loop ends once shutdown_event is set, run() and main()
\* return and the interpreter exits, ending the daemon monitor thread with it
run_exit ==
    /\ main.pc = "wait"
    /\ shutdown_event
    /\ main' = [main EXCEPT !.pc = "exited"]
    /\ UNCHANGED <<supOthers, config, module_state, process, retry_count, crash_count, shutdown_event,
                   mon, crashes, stop_calls, restarts, perm_failed, escalation>>

----
\* shutdown(), run by thread record th (main or mon); thp is its next value

\* "if self.shutdown_event.is_set(): return"
shutdown_check(th, thp, returned) ==
    /\ th.pc = "sd_check"
    /\ thp = IF shutdown_event THEN returned ELSE [th EXCEPT !.pc = "sd_set"]

\* "self.shutdown_event.set()"
shutdown_set(th, thp) ==
    /\ th.pc = "sd_set"
    /\ shutdown_event' = TRUE
    /\ thp = [th EXCEPT !.pc = "sd_stop", !.i = 1]

AfterStop(th) ==
    IF th.i < Len(ModuleOrder)
      THEN [th EXCEPT !.pc = "sd_stop", !.i = th.i + 1]
      ELSE [th EXCEPT !.pc = "sd_join", !.i = 1]

\* Module.stop(), first half: "if self.process:" then SIGTERM to the group and wait/kill
stop_signal(th, thp) ==
    /\ th.pc = "sd_stop"
    /\ LET m == ModuleOrder[th.i] IN
         IF process[m] = "none"
           THEN /\ thp = AfterStop(th)
                /\ UNCHANGED <<process, stop_calls>>
           ELSE /\ thp = [th EXCEPT !.pc = "sd_stopped"]
                /\ process' = [process EXCEPT ![m] = "dead"]
                /\ stop_calls' = [stop_calls EXCEPT ![m] = stop_calls[m] + 1]

\* Module.stop(), finally clause: process = None, state = STOPPED
stop_finally(th, thp) ==
    /\ th.pc = "sd_stopped"
    /\ LET m == ModuleOrder[th.i] IN
         /\ process' = [process EXCEPT ![m] = "none"]
         /\ module_state' = [module_state EXCEPT ![m] = "stopped"]
    /\ thp = AfterStop(th)

\* shutdown() called by the signal handler in the main thread
main_shutdown ==
    \/ /\ shutdown_check(main, main', [main EXCEPT !.pc = main.ret])
       /\ UNCHANGED <<supOthers, config, module_state, process, retry_count, crash_count,
                      shutdown_event, mon, crashes, stop_calls, restarts, perm_failed,
                      escalation>>
    \/ /\ shutdown_set(main, main')
       /\ UNCHANGED <<supOthers, config, module_state, process, retry_count, crash_count,
                      mon, crashes, stop_calls, restarts, perm_failed, escalation>>
    \/ /\ stop_signal(main, main')
       /\ UNCHANGED <<supOthers, config, module_state, retry_count, crash_count, shutdown_event,
                      mon, crashes, restarts, perm_failed, escalation>>
    \/ /\ stop_finally(main, main')
       /\ UNCHANGED <<supOthers, config, retry_count, crash_count, shutdown_event,
                      mon, crashes, stop_calls, restarts, perm_failed, escalation>>
    \/ \* monitor_thread.join(timeout=10), then sys.exit(0)
       /\ main.pc = "sd_join"
       /\ main' = [main EXCEPT !.pc = "exited"]
       /\ UNCHANGED <<supOthers, config, module_state, process, retry_count, crash_count,
                      shutdown_event, mon, crashes, stop_calls, restarts, perm_failed,
                      escalation>>

\* shutdown() called by monitor_modules in the monitor thread
mon_shutdown ==
    /\ ProcessUp
    /\ \/ \* on an early return "break" leaves the for loop, then time.sleep(5)
          /\ shutdown_check(mon, mon', [mon EXCEPT !.pc = "sleep5"])
          /\ UNCHANGED <<supOthers, config, module_state, process, retry_count, crash_count,
                         shutdown_event, main, crashes, stop_calls, restarts, perm_failed,
                         escalation>>
       \/ /\ shutdown_set(mon, mon')
          /\ UNCHANGED <<supOthers, config, module_state, process, retry_count, crash_count,
                         main, crashes, stop_calls, restarts, perm_failed, escalation>>
       \/ /\ stop_signal(mon, mon')
          /\ UNCHANGED <<supOthers, config, module_state, retry_count, crash_count, shutdown_event,
                         main, crashes, restarts, perm_failed, escalation>>
       \/ /\ stop_finally(mon, mon')
          /\ UNCHANGED <<supOthers, config, retry_count, crash_count, shutdown_event,
                         main, crashes, stop_calls, restarts, perm_failed, escalation>>
       \/ \* monitor_thread.is_alive() holds of the running thread itself and
          \* join() on the current thread raises RuntimeError: the thread dies
          /\ mon.pc = "sd_join"
          /\ mon' = [mon EXCEPT !.pc = "raised"]
          /\ UNCHANGED <<supOthers, config, module_state, process, retry_count, crash_count,
                         shutdown_event, main, crashes, stop_calls, restarts, perm_failed,
                         escalation>>

----
\* monitor_modules

NextModule(th) ==
    IF th.i < Len(ModuleOrder)
      THEN [th EXCEPT !.pc = "scan", !.i = th.i + 1]
      ELSE [th EXCEPT !.pc = "sleep5", !.i = 1]

\* "while not self.shutdown_event.is_set()"
monitor_while ==
    /\ ProcessUp
    /\ mon.pc = "while"
    /\ mon' = IF shutdown_event THEN [mon EXCEPT !.pc = "ended"]
                                ELSE [mon EXCEPT !.pc = "scan", !.i = 1]
    /\ UNCHANGED <<supOthers, config, module_state, process, retry_count, crash_count, shutdown_event,
                   main, crashes, stop_calls, restarts, perm_failed, escalation>>

\* one iteration of the for loop up to the retry_delay sleep or the escalation
monitor_check ==
    /\ ProcessUp
    /\ mon.pc = "scan"
    /\ LET m == ModuleOrder[mon.i] IN
         IF module_state[m] = "running" /\ ~is_alive(m)
           THEN /\ crash_count' = [crash_count EXCEPT ![m] = crash_count[m] + 1]
                /\ IF should_restart(m)
                     THEN /\ retry_count' = [retry_count EXCEPT ![m] = retry_count[m] + 1]
                          /\ module_state' = [module_state EXCEPT ![m] = "restarting"]
                          /\ mon' = [mon EXCEPT !.pc = "retry_delay"]
                          /\ UNCHANGED <<perm_failed, escalation>>
                     ELSE /\ module_state' = [module_state EXCEPT ![m] = "failed"]
                          /\ perm_failed' = perm_failed \cup {m}
                          /\ retry_count' = retry_count
                          /\ IF escalates(m)
                               THEN /\ mon' = [mon EXCEPT !.pc = "sd_check"]
                                    /\ escalation' =
                                         [on |-> TRUE, by |-> m,
                                          running |-> {o \in Modules \ {m} :
                                                         module_state[o] = "running"}]
                               ELSE /\ mon' = NextModule(mon)
                                    /\ escalation' = escalation
           ELSE /\ mon' = NextModule(mon)
                /\ UNCHANGED <<module_state, retry_count, crash_count, perm_failed,
                               escalation>>
    /\ UNCHANGED <<supOthers, config, process, shutdown_event, main, crashes, stop_calls, restarts>>

\* after time.sleep(retry_delay): module.start() up to the Popen call; a
\* missing script makes it return False at once ("Restart attempt failed")
monitor_restart(script) ==
    /\ ProcessUp
    /\ mon.pc = "retry_delay"
    /\ LET m == ModuleOrder[mon.i] IN
         /\ module_state' = [module_state EXCEPT ![m] = start_check(m, script)]
         /\ restarts' = [restarts EXCEPT
                           ![m] = IF script = "found" THEN restarts[m] ELSE restarts[m] + 1]
    /\ mon' = IF script = "found" THEN [mon EXCEPT !.pc = "rs_spawn"] ELSE NextModule(mon)
    /\ UNCHANGED <<supOthers, config, process, retry_count, crash_count, shutdown_event, main,
                   crashes, stop_calls, perm_failed, escalation>>

\* module.start(): "self.process = subprocess.Popen(...)" or the except clause
monitor_spawn(outcome) ==
    /\ ProcessUp
    /\ mon.pc = "rs_spawn"
    /\ LET m == ModuleOrder[mon.i] IN
         /\ process' = [process EXCEPT ![m] = start_process(m, outcome)]
         /\ IF outcome = "ok"
              THEN /\ mon' = [mon EXCEPT !.pc = "rs_running"]
                   /\ UNCHANGED <<module_state, restarts>>
              ELSE /\ module_state' = [module_state EXCEPT ![m] = start_state(m, outcome)]
                   /\ restarts' = [restarts EXCEPT ![m] = restarts[m] + 1]
                   /\ mon' = NextModule(mon)
    /\ UNCHANGED <<supOthers, config, retry_count, crash_count, shutdown_event, main, crashes,
                   stop_calls, perm_failed, escalation>>

\* module.start(): "self.state = RUNNING", return True; then "retry_count = 0"
monitor_running ==
    /\ ProcessUp
    /\ mon.pc = "rs_running"
    /\ LET m == ModuleOrder[mon.i] IN
         /\ module_state' = [module_state EXCEPT ![m] = start_state(m, "ok")]
         /\ retry_count' = [retry_count EXCEPT ![m] = 0]
         /\ restarts' = [restarts EXCEPT ![m] = 0]
    /\ mon' = NextModule(mon)
    /\ UNCHANGED <<supOthers, config, process, crash_count, shutdown_event, main, crashes,
                   stop_calls, perm_failed, escalation>>

\* "time.sleep(5)" at the end of a monitoring cycle
monitor_sleep ==
    /\ ProcessUp
    /\ mon.pc = "sleep5"
    /\ mon' = [mon EXCEPT !.pc = "while"]
    /\ UNCHANGED <<supOthers, config, module_state, process, retry_count, crash_count, shutdown_event,
                   main, crashes, stop_calls, restarts, perm_failed, escalation>>

SupNext ==
    \/ \E m \in Modules : Crash(m)
    \/ \E s \in ScriptOutcomes : start_all_modules(s)
    \/ \E o \in SpawnOutcomes : start_all_spawn(o)
    \/ start_all_running
    \/ signal_handler
    \/ run_exit
    \/ main_shutdown
    \/ mon_shutdown
    \/ monitor_while
    \/ monitor_check
    \/ \E s \in ScriptOutcomes : monitor_restart(s)
    \/ \E o \in SpawnOutcomes : monitor_spawn(o)
    \/ monitor_running
    \/ monitor_sleep

(***************************************************************************)
(*                          NAVIGATION ARBITER                             *)
(* Speeds and distances are integers in 1/1000 of the source's unit        *)
(* (mm/s, mrad/s, mm); a motor value of 1.0 is 1000.                       *)
(***************************************************************************)

Impls == {"robot_project", "modules", "navigation"}

max_linear_speed == 500
max_angular_speed == 1000
emergency_stop_distance == 200
min_obstacle_distance == 500
\* float('inf'), the min_distance of a fresh ObstacleInfo
Infinity == 1000000

\* payload 'mode' of a ModeChanged event; "None" stands for a payload without the key
ModeInputs == {"auto", "manual", "None", "turbo"}
\* payload left_motor / right_motor (and x / y of navigation.py's MoveCommand)
MotorValues == {-1000, 0, 1000, 2000}
\* a LaserScan: range_min, range_max of the sensor and up to MaxScanLen ranges
ScanLimits == [range_min |-> 80, range_max |-> 5000]
RangeValues == {50, 150, 300, 1000}
MaxScanLen == 2
Scans == UNION {[1..n -> RangeValues] : n \in 0..MaxScanLen}
\* what SimulatedRobot.scan_obstacles can return
SimObstacles ==
    {[detected |-> FALSE, min_distance |-> Infinity, direction |-> "unknown"]} \cup
    {[detected |-> TRUE, min_distance |-> d, direction |-> dir] :
        d \in {200, 1000}, dir \in {"front", "left", "right"}}

LtIdle == [pc |-> "idle", mode |-> "None", pre_mode |-> "None", pre_state |-> "idle"]
LaserIdle == [pc |-> "idle", min_distance |-> 0]
NoOp == [op |-> "none", arg |-> <<>>, out |-> {}]

Clamp(x, m) == IF x > m THEN m ELSE IF x < -m THEN -m ELSE x

send_velocity_command_unclamped(linear_x, angular_z) == <<linear_x, angular_z>>

\* ROSNavigationModule.send_velocity_command: the command the backend receives
send_velocity_command(linear_x, angular_z) ==
    <<Clamp(linear_x, max_linear_speed), Clamp(angular_z, max_angular_speed)>>

twist_of_motors_swapped(left_motor, right_motor) ==
    <<((left_motor + right_motor) * max_angular_speed) \div 2000,
      ((right_motor - left_motor) * max_linear_speed) \div 2000>>

\* differential drive to twist: (l + r) / 2.0 * max_linear_speed, (r - l) / 2.0 * max_angular_speed
twist_of_motors(left_motor, right_motor) ==
    <<((left_motor + right_motor) * max_linear_speed) \div 2000,
      ((right_motor - left_motor) * max_angular_speed) \div 2000>>

\* move_base_client.cancel_all_goals(), guarded by "ROS_AVAILABLE and self.move_base_client"
cancel_all_goals == IF ros /\ goal = "active" THEN "cancelled" ELSE goal

\* ranges kept by "not (r < range_min or r > range_max)"
ValidRanges(scan) ==
    SelectSeq(scan, LAMBDA r : ~(r < ScanLimits.range_min \/ r > ScanLimits.range_max))

SeqMin(rs) == CHOOSE x \in {rs[k] : k \in 1..Len(rs)} : \A k \in 1..Len(rs) : x <= rs[k]

\* ranges.index(min_distance), 0-based
MinIndex(rs) == (CHOOSE k \in 1..Len(rs) :
                    /\ rs[k] = SeqMin(rs)
                    /\ \A j \in 1..(k - 1) : rs[j] # SeqMin(rs)) - 1

Direction(rs) ==
    IF 3 * MinIndex(rs) < Len(rs) THEN "right"
    ELSE IF 3 * MinIndex(rs) > 2 * Len(rs) THEN "left"
    ELSE "front"

\* the distance a scan reports, Infinity when it holds no valid range
ScanDistance(scan) ==
    IF ValidRanges(scan) = <<>> THEN Infinity ELSE SeqMin(ValidRanges(scan))

NavInit ==
    /\ impl \in Impls
    /\ ros \in BOOLEAN
    /\ is_enabled = FALSE
    /\ current_mode \in (CASE impl = "robot_project" -> {"auto"}
                           [] impl = "modules"       -> {"manual"}
                           [] impl = "navigation"    -> {"MANUAL", "AUTO"})
    /\ nav_state = "idle"
    /\ velocity = <<0, 0>>
    /\ goal = "none"
    /\ obstacle_info = [detected |-> FALSE, min_distance |-> Infinity, direction |-> "unknown"]
    /\ lt = LtIdle
    /\ laser = LaserIdle
    /\ nav_last = NoOp

\* the arbiter's variables while another component is checked
NavIdle ==
    /\ impl = "robot_project"
    /\ ros = FALSE
    /\ is_enabled = FALSE
    /\ current_mode = "auto"
    /\ nav_state = "idle"
    /\ velocity = <<0, 0>>
    /\ goal = "none"
    /\ obstacle_info = [detected |-> FALSE, min_distance |-> Infinity, direction |-> "unknown"]
    /\ lt = LtIdle
    /\ laser = LaserIdle
    /\ nav_last = NoOp

----
\* robot_project/modules/ros_navigation.py

\* handle_mode_change, first statement: self.current_mode = event.data.get('mode')
handle_mode_change(mode) ==
    /\ impl = "robot_project"
    /\ lt.pc = "idle"
    /\ current_mode' = mode
    /\ lt' = [pc |-> "mode_set", mode |-> mode, pre_mode |-> current_mode,
              pre_state |-> nav_state]
    /\ UNCHANGED <<navOthers, impl, ros, is_enabled, nav_state, velocity, goal, obstacle_info, laser,
                   nav_last>>

enable_navigation_flag_untouched ==
    /\ IF current_mode = "auto"
         THEN is_enabled' = is_enabled /\ nav_state' = "idle"
         ELSE UNCHANGED <<is_enabled, nav_state>>
    /\ UNCHANGED <<velocity, goal>>

enable_navigation ==
    /\ IF current_mode = "auto"
         THEN is_enabled' = TRUE /\ nav_state' = "idle"
         ELSE UNCHANGED <<is_enabled, nav_state>>
    /\ UNCHANGED <<velocity, goal>>

enable_published ==
    IF current_mode = "auto" THEN {"navigation_status:enabled", "face_emotion:happy"} ELSE {}

disable_navigation_keeps_goal ==
    /\ is_enabled' = FALSE
    /\ nav_state' = "idle"
    /\ goal' = goal
    /\ velocity' = send_velocity_command(0, 0)

disable_navigation ==
    /\ is_enabled' = FALSE
    /\ nav_state' = "idle"
    /\ goal' = cancel_all_goals
    /\ velocity' = send_velocity_command(0, 0)

\* handle_mode_change, the branch: enable_navigation() or disable_navigation()
mode_change_apply ==
    /\ impl = "robot_project"
    /\ lt.pc = "mode_set"
    /\ IF lt.mode = "auto" THEN enable_navigation ELSE disable_navigation
    /\ lt' = LtIdle
    /\ nav_last' = [op |-> "mode_change", arg |-> <<lt.mode, lt.pre_mode, lt.pre_state>>,
                    out |-> IF lt.mode = "auto" THEN enable_published
                            ELSE {"navigation_status:disabled"}]
    /\ UNCHANGED <<navOthers, impl, ros, current_mode, obstacle_info, laser>>

handle_movement_command_any_mode(left_motor, right_motor) ==
    /\ impl = "robot_project"
    /\ lt.pc = "idle"
    /\ velocity' = send_velocity_command(twist_of_motors(left_motor, right_motor)[1],
                                         twist_of_motors(left_motor, right_motor)[2])
    /\ nav_last' = [op |-> "move", arg |-> <<>>, out |-> {}]
    /\ UNCHANGED <<navOthers, impl, ros, is_enabled, current_mode, nav_state, goal, obstacle_info,
                   lt, laser>>

handle_movement_command(left_motor, right_motor) ==
    /\ impl = "robot_project"
    /\ lt.pc = "idle"
    /\ IF current_mode # "manual"
         THEN velocity' = velocity
         ELSE velocity' = send_velocity_command(twist_of_motors(left_motor, right_motor)[1],
                                                twist_of_motors(left_motor, right_motor)[2])
    /\ nav_last' = [op |-> "move", arg |-> <<>>, out |-> {}]
    /\ UNCHANGED <<navOthers, impl, ros, is_enabled, current_mode, nav_state, goal, obstacle_info,
                   lt, laser>>

\* _laser_callback up to the update of obstacle_info (registered only with the ROS backend)
laser_callback(scan) ==
    /\ impl = "robot_project"
    /\ ros
    /\ laser.pc = "idle"
    /\ IF ~is_enabled \/ ValidRanges(scan) = <<>>
         THEN /\ nav_last' = [op |-> "laser", arg |-> <<ScanDistance(scan)>>, out |-> {}]
              /\ UNCHANGED <<obstacle_info, laser>>
         ELSE /\ obstacle_info' = [detected |-> TRUE,
                                   min_distance |-> SeqMin(ValidRanges(scan)),
                                   direction |-> Direction(ValidRanges(scan))]
              /\ laser' = [pc |-> "analysed", min_distance |-> SeqMin(ValidRanges(scan))]
              /\ nav_last' = nav_last
    /\ UNCHANGED <<navOthers, impl, ros, is_enabled, current_mode, nav_state, velocity, goal, lt>>

emergency_stop ==
    /\ velocity' = send_velocity_command(0, 0)
    /\ goal' = cancel_all_goals
    /\ nav_state' = "paused"

emergency_published ==
    {"face_emotion:confused", "face_status:emergency_stop", "voice_output:emergency_stop"}

\* _laser_callback, the threshold branches
laser_react ==
    /\ impl = "robot_project"
    /\ laser.pc = "analysed"
    /\ IF laser.min_distance < emergency_stop_distance
         THEN /\ emergency_stop
              /\ nav_last' = [op |-> "laser", arg |-> <<laser.min_distance>>,
                              out |-> emergency_published \cup {"obstacle_detected:critical"}]
         ELSE IF laser.min_distance < min_obstacle_distance
         THEN /\ nav_state' = "avoiding_obstacle"
              /\ nav_last' = [op |-> "laser", arg |-> <<laser.min_distance>>,
                              out |-> {"obstacle_detected:warning"}]
              /\ UNCHANGED <<velocity, goal>>
         ELSE /\ nav_last' = [op |-> "laser", arg |-> <<laser.min_distance>>, out |-> {}]
              /\ UNCHANGED <<velocity, goal, nav_state>>
    /\ laser' = LaserIdle
    /\ UNCHANGED <<navOthers, impl, ros, is_enabled, current_mode, obstacle_info, lt>>

navigate_to_goal ==
    /\ impl = "robot_project"
    /\ IF is_enabled /\ ros
         THEN /\ goal' = "active"
              /\ nav_state' = "navigating"
              /\ nav_last' = [op |-> "navigate", arg |-> <<TRUE>>,
                              out |-> {"navigation_status:navigating"}]
         ELSE /\ nav_last' = [op |-> "navigate", arg |-> <<FALSE>>, out |-> {}]
              /\ UNCHANGED <<goal, nav_state>>
    /\ UNCHANGED <<navOthers, impl, ros, is_enabled, current_mode, velocity, obstacle_info, lt, laser>>

\* the statuses move_base reports for a goal: it succeeds or aborts, or is
\* preempted once cancel_all_goals was requested
GoalStatuses == IF goal = "active" THEN {"SUCCEEDED", "ABORTED"} ELSE {"PREEMPTED", "SUCCEEDED"}

goal_done_callback(status) ==
    /\ impl = "robot_project"
    /\ goal # "none"
    /\ status \in GoalStatuses
    /\ goal' = "none"
    /\ IF status = "SUCCEEDED"
         THEN /\ nav_state' = "goal_reached"
              /\ nav_last' = [op |-> "goal_done", arg |-> <<status>>,
                              out |-> {"navigation_status:goal_reached", "face_emotion:excited"}]
         ELSE /\ nav_state' = "failed"
              /\ nav_last' = [op |-> "goal_done", arg |-> <<status>>,
                              out |-> {"navigation_status:failed"}]
    /\ UNCHANGED <<navOthers, impl, ros, is_enabled, current_mode, velocity, obstacle_info, lt, laser>>

\* one pass of the run() loop: publish_status() and, without ROS, check_obstacles()
run(ob) ==
    /\ impl = "robot_project"
    /\ IF ros
         THEN /\ obstacle_info' = obstacle_info
              /\ nav_last' = [op |-> "run", arg |-> <<>>, out |-> {"navigation_status:status"}]
         ELSE /\ obstacle_info' = ob
              /\ nav_last' = [op |-> "run", arg |-> <<>>,
                              out |-> {"navigation_status:status"} \cup
                                      IF ob.detected /\ ob.min_distance < min_obstacle_distance
                                        THEN {"obstacle_detected"} ELSE {}]
    /\ UNCHANGED <<navOthers, impl, ros, is_enabled, current_mode, nav_state, velocity, goal, lt, laser>>

----
\* modules/ros_navigation.py

\* self.current_mode = event.data.get('mode', 'manual')
modules_handle_mode_change(mode) ==
    /\ impl = "modules"
    /\ current_mode' = IF mode = "None" THEN "manual" ELSE mode
    /\ nav_last' = [op |-> "mode_change", arg |-> <<mode, current_mode, nav_state>>, out |-> {}]
    /\ UNCHANGED <<navOthers, impl, ros, is_enabled, nav_state, velocity, goal, obstacle_info, lt, laser>>

\* send_velocity: the Twist is published as given
send_velocity(linear, angular) == <<linear, angular>>

modules_handle_movement_command(left, right) ==
    /\ impl = "modules"
    /\ IF current_mode = "manual"
         THEN velocity' = send_velocity((left + right) \div 2, (right - left) \div 2)
         ELSE velocity' = velocity
    /\ nav_last' = [op |-> "move", arg |-> <<>>, out |-> {}]
    /\ UNCHANGED <<navOthers, impl, ros, is_enabled, current_mode, nav_state, goal, obstacle_info,
                   lt, laser>>

\* ranges kept by "data.range_min < r < data.range_max"
valid_ranges(scan) ==
    SelectSeq(scan, LAMBDA r : ScanLimits.range_min < r /\ r < ScanLimits.range_max)

\* _ros_scan_callback and _handle_obstacle (50 cm warning, 30 cm stop in auto mode)
ros_scan_callback(scan) ==
    /\ impl = "modules"
    /\ ros
    /\ IF valid_ranges(scan) = <<>>
         THEN /\ nav_last' = [op |-> "laser", arg |-> <<ScanDistance(scan)>>, out |-> {}]
              /\ UNCHANGED <<obstacle_info, velocity>>
         ELSE IF SeqMin(valid_ranges(scan)) < 500
         THEN /\ obstacle_info' = [obstacle_info EXCEPT
                                     !.detected = TRUE,
                                     !.min_distance = SeqMin(valid_ranges(scan))]
              /\ velocity' = IF current_mode = "auto" /\ SeqMin(valid_ranges(scan)) < 300
                               THEN send_velocity(0, 0) ELSE velocity
              /\ nav_last' = [op |-> "laser", arg |-> <<ScanDistance(scan)>>, out |-> {"obstacle_detected"}]
         ELSE /\ obstacle_info' = [obstacle_info EXCEPT !.detected = FALSE]
              /\ nav_last' = [op |-> "laser", arg |-> <<ScanDistance(scan)>>, out |-> {}]
              /\ UNCHANGED velocity
    /\ UNCHANGED <<navOthers, impl, ros, is_enabled, current_mode, nav_state, goal, lt, laser>>

----
\* modules/navigation.py: run_nav_module, one event taken from sub_queue

\* MotorController.move(x, y): the Twist is published as given
move(x, y) == <<x, y>>

run_nav_module_ModeSwitch(new_mode) ==
    /\ impl = "navigation"
    /\ IF new_mode = "AUTO" /\ current_mode # "AUTO"
         THEN /\ current_mode' = "AUTO"
              /\ velocity' = velocity
              /\ nav_last' = [op |-> "mode_change", arg |-> <<new_mode, current_mode, nav_state>>,
                              out |-> {"EMOTION:THINKING"}]
         ELSE IF new_mode = "MANUAL" /\ current_mode # "MANUAL"
         THEN /\ current_mode' = "MANUAL"
              /\ velocity' = move(0, 0)
              /\ nav_last' = [op |-> "mode_change", arg |-> <<new_mode, current_mode, nav_state>>,
                              out |-> {"EMOTION:HAPPY"}]
         ELSE /\ nav_last' = [op |-> "mode_change", arg |-> <<new_mode, current_mode, nav_state>>,
                              out |-> {}]
              /\ UNCHANGED <<current_mode, velocity>>
    /\ UNCHANGED <<navOthers, impl, ros, is_enabled, nav_state, goal, obstacle_info, lt, laser>>

run_nav_module_MoveCommand(x, y) ==
    /\ impl = "navigation"
    /\ velocity' = IF current_mode = "MANUAL" THEN move(x, y) ELSE velocity
    /\ nav_last' = [op |-> "move", arg |-> <<>>, out |-> {}]
    /\ UNCHANGED <<navOthers, impl, ros, is_enabled, current_mode, nav_state, goal, obstacle_info,
                   lt, laser>>

run_nav_module_EmergencyStop ==
    /\ impl = "navigation"
    /\ velocity' = move(0, 0)
    /\ nav_last' = [op |-> "estop", arg |-> <<>>, out |-> {}]
    /\ UNCHANGED <<navOthers, impl, ros, is_enabled, current_mode, nav_state, goal, obstacle_info,
                   lt, laser>>

NavNext ==
    \/ \E mode \in ModeInputs : handle_mode_change(mode)
    \/ mode_change_apply
    \/ \E l, r \in MotorValues : handle_movement_command(l, r)
    \/ \E scan \in Scans : laser_callback(scan)
    \/ laser_react
    \/ navigate_to_goal
    \/ \E status \in {"SUCCEEDED", "ABORTED", "PREEMPTED"} : goal_done_callback(status)
    \/ \E ob \in SimObstacles : run(ob)
    \/ \E mode \in ModeInputs : modules_handle_mode_change(mode)
    \/ \E l, r \in MotorValues : modules_handle_movement_command(l, r)
    \/ \E scan \in Scans : ros_scan_callback(scan)
    \/ \E mode \in {"AUTO", "MANUAL"} : run_nav_module_ModeSwitch(mode)
    \/ \E x, y \in MotorValues : run_nav_module_MoveCommand(x, y)
    \/ run_nav_module_EmergencyStop

(***************************************************************************)
(*                     EVENT BUS (modules/event_bus.py)                    *)
(***************************************************************************)

\* event types used on the bus and the callbacks that subscribe to them
Kinds == {"mode_changed", "movement_command"}
Handlers == {"h1", "h2"}
\* the callbacks that raise an exception whenever they are called
Raising == {"h1"}
Payloads == {"a", "b"}
\* bound on the number of events published (locally or by another process)
MaxPublish == 2
\* the limit arguments of get_history that are tried (100 is its default)
Limits == {1, 100}
\* the event types this process subscribes to
SubKinds == {"mode_changed"}
\* the threads that call subscribe, and the callback each of them registers
SubThreads == {"t1", "t2"}
CallbackOf(t) == IF t = "t1" THEN "h1" ELSE "h2"
\* done: the event types for which the thread has returned from subscribe
SubIdle == [pc |-> "idle", kind |-> "None", done |-> {}]

NoCall == [op |-> "none", kind |-> "None", event |-> <<>>, limit |-> 0, result |-> <<>>,
           ok |-> TRUE]

\* Event(event_type, data, source); id stands for its timestamp
Event(kind, data, source, id) ==
    [event_type |-> kind, data |-> data, source |-> source, id |-> id]

\* self.subscribers[event_type] where the key exists, else no callbacks
SubscribersOf(kind) ==
    IF kind \in DOMAIN subscribers THEN subscribers[kind] ELSE <<>>

Range(s) == {s[k] : k \in DOMAIN s}

BusInit ==
    /\ subscribers = [k \in {} |-> <<>>]
    /\ redis_client \in {"connected", "none"}
    /\ broker_up = TRUE
    /\ channels = {}
    /\ inbox = <<>>
    /\ calls = <<>>
    /\ next_id = 1
    /\ sub = [t \in SubThreads |-> SubIdle]
    /\ bus_last = NoCall

\* the bus's variables while another component is checked
BusIdle ==
    /\ subscribers = [k \in {} |-> <<>>]
    /\ redis_client = "none"
    /\ broker_up = TRUE
    /\ channels = {}
    /\ inbox = <<>>
    /\ calls = <<>>
    /\ next_id = 1
    /\ sub = [t \in SubThreads |-> SubIdle]
    /\ bus_last = NoCall

\* the loop over the callbacks without its try/except: the first exception ends it
Dispatch_unguarded(event, via) ==
    LET cbs == SubscribersOf(event.event_type)
        bad == {k \in DOMAIN cbs : cbs[k] \in Raising}
        last == IF bad = {} THEN Len(cbs) ELSE CHOOSE k \in bad : \A j \in bad : k <= j
    IN  [calls |-> [k \in 1..last |-> <<cbs[k], event.id, via, event.source>>],
         raised |-> bad # {}]

\* "for callback in self.subscribers[event_type]: try: callback(event) except Exception":
\* the callbacks called in list order on behalf of thread via, and whether an
\* exception leaves the loop
Dispatch(event, via) ==
    LET cbs == SubscribersOf(event.event_type)
    IN  [calls |-> [k \in 1..Len(cbs) |-> <<cbs[k], event.id, via, event.source>>],
         raised |-> FALSE]

\* the Redis publish without "if self.redis_client" and its try/except
RedisPublish_unguarded(event) ==
    [inbox |-> IF redis_client = "connected" /\ broker_up /\ event.event_type \in channels
                 THEN Append(inbox, event) ELSE inbox,
     raised |-> redis_client = "none" \/ ~broker_up]

\* "if self.redis_client: try: self.redis_client.publish(channel, message) except Exception":
\* Redis hands the message to every connection subscribed to the channel,
\* the pubsub connection of this process included
RedisPublish(event) ==
    [inbox |-> IF redis_client = "connected" /\ broker_up /\ event.event_type \in channels
                 THEN Append(inbox, event) ELSE inbox,
     raised |-> FALSE]

\* the Redis server going away and coming back
BrokerToggle ==
    /\ redis_client = "connected"
    /\ broker_up' = ~broker_up
    /\ UNCHANGED <<busOthers, subscribers, redis_client, channels, inbox, calls, next_id,
                   sub, bus_last>>

publish(event_type, data, source) ==
    /\ next_id <= MaxPublish
    /\ LET event == Event(event_type, data, source, next_id)
           local == Dispatch(event, "publisher")
           relay == RedisPublish(event)
       IN
         /\ calls' = calls \o local.calls
         /\ inbox' = IF local.raised THEN inbox ELSE relay.inbox
         /\ bus_last' = [op |-> "publish", kind |-> event_type, event |-> <<event>>,
                         limit |-> 0, result |-> <<>>,
                         ok |-> ~local.raised /\ ~relay.raised]
    /\ next_id' = next_id + 1
    /\ UNCHANGED <<busOthers, subscribers, redis_client, broker_up, channels, sub>>

\* an event published by another process reaches this process through Redis
remote_publish(event_type, data) ==
    /\ next_id <= MaxPublish
    /\ redis_client = "connected"
    /\ broker_up
    /\ event_type \in channels
    /\ inbox' = Append(inbox, Event(event_type, data, "remote", next_id))
    /\ next_id' = next_id + 1
    /\ UNCHANGED <<busOthers, subscribers, redis_client, broker_up, channels, calls,
                   sub, bus_last>>

\* subscribe, the test "if event_type not in self.subscribers" made by thread t
subscribe(t, event_type, callback) ==
    /\ sub[t].pc = "idle"
    /\ callback = CallbackOf(t)
    /\ event_type \notin sub[t].done
    /\ sub' = [sub EXCEPT ![t].pc = IF event_type \in DOMAIN subscribers
                                      THEN "append" ELSE "create",
                          ![t].kind = event_type]
    /\ UNCHANGED <<busOthers, subscribers, redis_client, broker_up, channels, inbox, calls,
                   next_id, bus_last>>

\* subscribe: "self.subscribers[event_type] = []" and "self.pubsub.subscribe(channel)",
\* which raises out of subscribe when the server does not answer
subscribe_create(t) ==
    /\ sub[t].pc = "create"
    /\ subscribers' = [k \in DOMAIN subscribers \cup {sub[t].kind} |->
                         IF k = sub[t].kind THEN <<>> ELSE subscribers[k]]
    /\ IF redis_client = "connected" /\ ~broker_up
         THEN /\ sub' = [sub EXCEPT ![t].pc = "idle", ![t].kind = "None"]
              /\ bus_last' = [op |-> "subscribe", kind |-> sub[t].kind, event |-> <<>>,
                              limit |-> 0, result |-> <<>>, ok |-> FALSE]
              /\ channels' = channels
         ELSE /\ sub' = [sub EXCEPT ![t].pc = "append"]
              /\ bus_last' = bus_last
              /\ channels' = IF redis_client = "connected"
                               THEN channels \cup {sub[t].kind} ELSE channels
    /\ UNCHANGED <<busOthers, redis_client, broker_up, inbox, calls, next_id>>

\* subscribe: "self.subscribers[event_type].append(callback)" and the return
subscribe_append(t) ==
    /\ sub[t].pc = "append"
    /\ subscribers' = [subscribers EXCEPT ![sub[t].kind] = Append(@, CallbackOf(t))]
    /\ sub' = [sub EXCEPT ![t].pc = "idle", ![t].kind = "None",
                          ![t].done = @ \cup {sub[t].kind}]
    /\ bus_last' = [op |-> "subscribe", kind |-> sub[t].kind, event |-> <<>>,
                    limit |-> 0, result |-> <<>>, ok |-> TRUE]
    /\ UNCHANGED <<busOthers, redis_client, broker_up, channels, inbox, calls, next_id>>

\* _listen_loop / _handle_message: the listener thread takes one message
listen_loop ==
    /\ inbox # <<>>
    /\ calls' = calls \o Dispatch(Head(inbox), "listener").calls
    /\ inbox' = Tail(inbox)
    /\ UNCHANGED <<busOthers, subscribers, redis_client, broker_up, channels, next_id,
                   sub, bus_last>>

\* get_history: "not implemented in Redis version", returns []
get_history(event_type, limit) ==
    /\ bus_last.op # "get_history"
    /\ bus_last' = [op |-> "get_history", kind |-> event_type,
                    event |-> IF bus_last.op = "publish"
                                   /\ event_type \in {bus_last.kind, "None"}
                                THEN bus_last.event ELSE <<>>,
                    limit |-> limit, result |-> <<>>, ok |-> TRUE]
    /\ UNCHANGED <<busOthers, subscribers, redis_client, broker_up, channels, inbox, calls,
                   next_id, sub>>

BusNext ==
    \/ BrokerToggle
    \/ \E k \in Kinds, d \in Payloads : publish(k, d, "test")
    \/ \E k \in Kinds, d \in Payloads : remote_publish(k, d)
    \/ \E t \in SubThreads, k \in SubKinds : subscribe(t, k, CallbackOf(t))
    \/ \E t \in SubThreads : subscribe_create(t)
    \/ \E t \in SubThreads : subscribe_append(t)
    \/ listen_loop
    \/ \E k \in Kinds \cup {"None"}, n \in Limits : get_history(k, n)

(***************************************************************************)
(*              QUEUE EVENT BUS (robot_project/core/event_bus.py)          *)
(***************************************************************************)

\* number of events a subscriber queue holds before put_nowait raises Full
\* (multiprocessing.Queue() without maxsize: the platform's semaphore limit)
QueueCapacity == 2
\* bound on the number of subscriber queues created
MaxSubscribers == 2
\* bound on the number of events published: enough to overrun a queue
MaxEvents == QueueCapacity + 1
RobotEventTypes == {"MOVE", "ESTOP"}

\* RobotEvent(event_type, payload); id stands for its timestamp
RobotEvent(event_type, id) == [type |-> event_type, id |-> id]

EbNoCall == [op |-> "none", id |-> 0, dropped |-> {}, ok |-> TRUE]

EbInit ==
    /\ queues = <<>>
    /\ eb_next = 1
    /\ eb_last = EbNoCall

\* q.put_nowait(event): appends unless the queue is full
put_nowait(q, event) ==
    IF Len(q) < QueueCapacity THEN Append(q, event) ELSE q

Full(q) == Len(q) >= QueueCapacity

\* the loop over the queues without "except queue.Full: pass": the first full
\* queue ends it
put_all_unguarded(qs, event) ==
    LET full == {i \in DOMAIN qs : Full(qs[i])}
        stop == IF full = {} THEN Len(qs) + 1 ELSE CHOOSE i \in full : \A j \in full : i <= j
    IN  [queues |-> [i \in DOMAIN qs |-> IF i < stop THEN put_nowait(qs[i], event) ELSE qs[i]],
         raised |-> full # {}]

\* "for q in self._queues: try: q.put_nowait(event) except queue.Full: pass"
put_all(qs, event) ==
    [queues |-> [i \in DOMAIN qs |-> put_nowait(qs[i], event)],
     raised |-> FALSE]

create_subscriber ==
    /\ Len(queues) < MaxSubscribers
    /\ queues' = Append(queues, <<>>)
    /\ eb_last' = [op |-> "create_subscriber", id |-> 0, dropped |-> {}, ok |-> TRUE]
    /\ UNCHANGED <<ebOthers, eb_next>>

\* EventBus.publish, under self._lock
EventBus_publish(event_type) ==
    /\ eb_next <= MaxEvents
    /\ LET event == RobotEvent(event_type, eb_next)
           put == put_all(queues, event)
       IN /\ queues' = put.queues
          /\ eb_last' = [op |-> "publish", id |-> eb_next,
                         dropped |-> {i \in DOMAIN queues : Full(queues[i])},
                         ok |-> ~put.raised]
    /\ eb_next' = eb_next + 1
    /\ UNCHANGED ebOthers

\* a subscriber module takes the next event from its queue
queue_get(i) ==
    /\ i \in DOMAIN queues
    /\ queues[i] # <<>>
    /\ queues' = [queues EXCEPT ![i] = Tail(@)]
    /\ UNCHANGED <<ebOthers, eb_next, eb_last>>

EbNext ==
    \/ create_subscriber
    \/ \E ty \in RobotEventTypes : EventBus_publish(ty)
    \/ \E i \in 1..MaxSubscribers : queue_get(i)

(***************************************************************************)
(*                   MULTIPROCESSING SUPERVISOR                            *)
(* main_launcher.py: ProcessManager starts one multiprocessing.Process per *)
(* module and restarts every process it finds dead                         *)
(***************************************************************************)

\* the modules started by the main block, in its order
ProcessOrder == <<"FaceModule", "NavModule">>

MaxDeaths == 6

\* ModuleConfig's default retry limit, the only retry limit of the repository
DefaultMaxRetries == 5

PmInit ==
    /\ processes = [n \in {} |-> [alive |-> FALSE, restarts |-> 0]]
    /\ running = TRUE
    /\ pm = [pc |-> "start", i |-> 1]
    /\ deaths = 0

\* a module process dies
Die(n) ==
    /\ pm.pc # "exited"
    /\ deaths < MaxDeaths
    /\ n \in DOMAIN processes
    /\ processes[n].alive
    /\ processes' = [processes EXCEPT ![n].alive = FALSE]
    /\ deaths' = deaths + 1
    /\ UNCHANGED <<pmOthers, running, pm>>

\* manager.start_process(name, ...) of the main block; after the last one
\* manager.monitor_loop() is entered
ProcessManager_start_process ==
    /\ pm.pc = "start"
    /\ LET n == ProcessOrder[pm.i] IN
         processes' = [m \in DOMAIN processes \cup {n} |->
                         IF m = n THEN [alive |-> TRUE, restarts |-> 0] ELSE processes[m]]
    /\ pm' = IF pm.i < Len(ProcessOrder) THEN [pm EXCEPT !.i = pm.i + 1]
                                         ELSE [pc |-> "while", i |-> 1]
    /\ UNCHANGED <<pmOthers, running, deaths>>

\* "while self.running:"
monitor_loop_while ==
    /\ pm.pc = "while"
    /\ pm' = IF running THEN [pc |-> "for", i |-> 1] ELSE [pc |-> "returned", i |-> 1]
    /\ UNCHANGED <<pmOthers, processes, running, deaths>>

\* one iteration of the for loop: a dead process is counted and replaced
monitor_loop ==
    /\ pm.pc = "for"
    /\ LET n == ProcessOrder[pm.i] IN
         processes' = IF processes[n].alive
                        THEN processes
                        ELSE [processes EXCEPT ![n] = [alive |-> TRUE,
                                                       restarts |-> processes[n].restarts + 1]]
    /\ pm' = IF pm.i < Len(ProcessOrder) THEN [pm EXCEPT !.i = pm.i + 1]
                                         ELSE [pc |-> "sleep", i |-> 1]
    /\ UNCHANGED <<pmOthers, running, deaths>>

\* "time.sleep(2)"
monitor_loop_sleep ==
    /\ pm.pc = "sleep"
    /\ pm' = [pm EXCEPT !.pc = "while"]
    /\ UNCHANGED <<pmOthers, processes, running, deaths>>

\* SIGINT/SIGTERM: cleanup() terminates and joins every process, then sys.exit(0)
cleanup ==
    /\ pm.pc \notin {"exited", "returned"}
    /\ running' = FALSE
    /\ processes' = [n \in DOMAIN processes |-> [processes[n] EXCEPT !.alive = FALSE]]
    /\ pm' = [pm EXCEPT !.pc = "exited"]
    /\ UNCHANGED <<pmOthers, deaths>>

PmNext ==
    \/ \E n \in DOMAIN processes : Die(n)
    \/ ProcessManager_start_process
    \/ monitor_loop_while
    \/ monitor_loop
    \/ monitor_loop_sleep
    \/ cleanup

(***************************************************************************)
(*                     THE ARBITER ON ITS TWO BACKENDS                     *)
(* robot_project/modules/ros_navigation.py run once with ROS_AVAILABLE and *)
(* once without; both instances are fed the same inputs.  Each handler is  *)
(* a function of the instance a and of the flag.                           *)
(***************************************************************************)

\* ROSNavigationModule.__init__; result is what navigate_to_goal returned
\* last, out the event types published by the last handler
NewArbiter ==
    [is_enabled |-> FALSE, current_mode |-> "auto", state |-> "idle",
     velocity |-> <<0, 0>>, goal |-> "none", result |-> "none", out |-> {}]

\* obstacle distances both the LaserScan and SimulatedRobot.scan_obstacles
\* (uniform(0.2, 2.0)) can report
ObstacleReadings == {200, 300, 1000}

BackendInit ==
    /\ hardware = NewArbiter
    /\ simulated = NewArbiter

\* handle_mode_change with enable_navigation / disable_navigation
Arbiter_handle_mode_change(a, ROS_AVAILABLE, mode) ==
    IF mode = "auto"
      THEN [a EXCEPT !.current_mode = mode, !.is_enabled = TRUE, !.state = "idle",
                     !.result = "none", !.out = {"navigation_status", "face_emotion"}]
      ELSE [a EXCEPT !.current_mode = mode, !.is_enabled = FALSE, !.state = "idle",
                     !.goal = IF ROS_AVAILABLE /\ a.goal = "active" THEN "cancelled" ELSE a.goal,
                     !.velocity = send_velocity_command(0, 0),
                     !.result = "none", !.out = {"navigation_status"}]

Arbiter_handle_movement_command(a, left_motor, right_motor) ==
    IF a.current_mode # "manual"
      THEN [a EXCEPT !.result = "none", !.out = {}]
      ELSE [a EXCEPT !.velocity = send_velocity_command(
                                     twist_of_motors(left_motor, right_motor)[1],
                                     twist_of_motors(left_motor, right_motor)[2]),
                     !.result = "none", !.out = {}]

\* an obstacle at distance d: _laser_callback with ROS, check_obstacles without
Arbiter_obstacle_reading(a, ROS_AVAILABLE, d) ==
    IF ROS_AVAILABLE
      THEN IF ~a.is_enabled
             THEN [a EXCEPT !.result = "none", !.out = {}]
           ELSE IF d < emergency_stop_distance
             THEN [a EXCEPT !.velocity = send_velocity_command(0, 0),
                            !.goal = IF a.goal = "active" THEN "cancelled" ELSE a.goal,
                            !.state = "paused", !.result = "none",
                            !.out = {"face_emotion", "face_status", "voice_output",
                                     "obstacle_detected"}]
           ELSE IF d < min_obstacle_distance
             THEN [a EXCEPT !.state = "avoiding_obstacle", !.result = "none",
                            !.out = {"obstacle_detected"}]
           ELSE [a EXCEPT !.result = "none", !.out = {}]
      ELSE [a EXCEPT !.result = "none",
                     !.out = IF d < min_obstacle_distance THEN {"obstacle_detected"} ELSE {}]

Arbiter_navigate_to_goal(a, ROS_AVAILABLE) ==
    IF ~a.is_enabled
      THEN [a EXCEPT !.result = "False", !.out = {}]
    ELSE IF ROS_AVAILABLE
      THEN [a EXCEPT !.goal = "active", !.state = "navigating", !.result = "True",
                     !.out = {"navigation_status"}]
    ELSE [a EXCEPT !.result = "False", !.out = {}]

\* one input, handled by both instances
Both_handle_mode_change(mode) ==
    /\ hardware' = Arbiter_handle_mode_change(hardware, TRUE, mode)
    /\ simulated' = Arbiter_handle_mode_change(simulated, FALSE, mode)
    /\ UNCHANGED beOthers

Both_handle_movement_command(left_motor, right_motor) ==
    /\ hardware' = Arbiter_handle_movement_command(hardware, left_motor, right_motor)
    /\ simulated' = Arbiter_handle_movement_command(simulated, left_motor, right_motor)
    /\ UNCHANGED beOthers

Both_obstacle_reading(d) ==
    /\ hardware' = Arbiter_obstacle_reading(hardware, TRUE, d)
    /\ simulated' = Arbiter_obstacle_reading(simulated, FALSE, d)
    /\ UNCHANGED beOthers

Both_navigate_to_goal ==
    /\ hardware' = Arbiter_navigate_to_goal(hardware, TRUE)
    /\ simulated' = Arbiter_navigate_to_goal(simulated, FALSE)
    /\ UNCHANGED beOthers

BackendNext ==
    \/ \E mode \in ModeInputs : Both_handle_mode_change(mode)
    \/ \E l, r \in MotorValues : Both_handle_movement_command(l, r)
    \/ \E d \in ObstacleReadings : Both_obstacle_reading(d)
    \/ Both_navigate_to_goal

(***************************************************************************)
(*              RedisEventBus.publish, STATEMENT BY STATEMENT              *)
(* One thread sets up its subscriptions and publishes; a callback returns, *)
(* raises, never returns, or re-enters the bus (publish or subscribe).     *)
(* pub is the thread's stack of publish() calls: the last frame is the     *)
(* innermost call.                                                         *)
(***************************************************************************)

\* what a callback called by publish can do
CallbackOutcomes == {"returns", "raises", "blocks", "publishes", "subscribes"}

\* bound on the nesting of publish() calls
MaxDepth == 2

PubInit == pub = <<>>

\* publish takes no lock: a nested call enters at once
lock_free_nonreentrant(stack) == stack = <<>>

lock_free(stack) == TRUE

\* a publish() call that has built its Event and made the test
\* "if event_type in self.subscribers"; at is the snapshot of the callbacks
\* registered at the call
Frame(event, stack) ==
    [event |-> event,
     listed |-> event.event_type \in DOMAIN subscribers,
     i |-> 1,
     pc |-> IF lock_free(stack) THEN "loop" ELSE "lock_wait",
     at |-> SubscribersOf(event.event_type)]

Top == pub[Len(pub)]

\* the callbacks the loop of the innermost call still has to call
Pending(f) ==
    f.listed /\ f.i <= Len(SubscribersOf(f.event.event_type))

\* the main thread subscribes (the whole of subscribe, no other thread in it)
publisher_subscribe ==
    /\ pub = <<>>
    /\ \E t \in SubThreads :
          /\ \A u \in SubThreads \ {t} : sub[u].pc = "idle"
          /\ \/ \E k \in SubKinds : subscribe(t, k, CallbackOf(t))
             \/ subscribe_create(t)
             \/ subscribe_append(t)
    /\ pub' = pub

\* publish(event_type, data, source) is called by the main thread
publish_enter(event_type, data, source) ==
    /\ pub = <<>>
    /\ \A t \in SubThreads : sub[t].pc = "idle"
    /\ next_id <= MaxPublish
    /\ pub' = <<Frame(Event(event_type, data, source, next_id), pub)>>
    /\ next_id' = next_id + 1
    /\ UNCHANGED <<pubOthers, subscribers, redis_client, broker_up, channels, inbox, calls,
                   sub, bus_last>>

\* "try: callback(event) except Exception": the next callback is called
publish_callback(outcome, nested) ==
    /\ pub # <<>>
    /\ Top.pc = "loop"
    /\ Pending(Top)
    /\ LET f == Top
           kind == f.event.event_type
           callback == subscribers[kind][f.i]
       IN
         /\ calls' = Append(calls, <<callback, f.event.id, "publisher", f.event.source>>)
         /\ CASE outcome \in {"returns", "raises"} ->
                   /\ pub' = [pub EXCEPT ![Len(pub)].i = f.i + 1]
                   /\ UNCHANGED <<subscribers, next_id>>
              [] outcome = "blocks" ->
                   /\ pub' = [pub EXCEPT ![Len(pub)].pc = "blocked"]
                   /\ UNCHANGED <<subscribers, next_id>>
              [] outcome = "publishes" ->
                   /\ Len(pub) < MaxDepth
                   /\ next_id <= MaxPublish
                   /\ pub' = Append([pub EXCEPT ![Len(pub)].pc = "in_callback"],
                                    Frame(Event(nested, "a", callback, next_id), pub))
                   /\ next_id' = next_id + 1
                   /\ UNCHANGED subscribers
              [] outcome = "subscribes" ->
                   \* the callback registers h2 for the event type being delivered
                   /\ "h2" \notin Range(subscribers[kind])
                   /\ subscribers' = [subscribers EXCEPT ![kind] = Append(@, "h2")]
                   /\ pub' = [pub EXCEPT ![Len(pub)].i = f.i + 1]
                   /\ UNCHANGED next_id
    /\ UNCHANGED <<pubOthers, redis_client, broker_up, channels, inbox, sub, bus_last>>

\* after the loop: the Redis publish, and publish() returns to its caller
publish_return ==
    /\ pub # <<>>
    /\ Top.pc = "loop"
    /\ ~Pending(Top)
    /\ inbox' = RedisPublish(Top.event).inbox
    /\ bus_last' = [op |-> "publish", kind |-> Top.event.event_type, event |-> <<Top.event>>,
                    limit |-> 0, result |-> <<>>, ok |-> TRUE]
    /\ pub' = IF Len(pub) = 1
                THEN <<>>
                ELSE [SubSeq(pub, 1, Len(pub) - 1) EXCEPT
                        ![Len(pub) - 1].pc = "loop",
                        ![Len(pub) - 1].i = pub[Len(pub) - 1].i + 1]
    /\ UNCHANGED <<pubOthers, subscribers, redis_client, broker_up, channels, calls, next_id,
                   sub>>

PubNext ==
    \/ publisher_subscribe
    \/ \E k \in Kinds, d \in Payloads : publish_enter(k, d, "test")
    \/ \E o \in CallbackOutcomes, k \in Kinds : publish_callback(o, k)
    \/ publish_return

(***************************************************************************)
(*                            SPECIFICATIONS                               *)
(***************************************************************************)

(***************************************************************************)
(*   handle_mode_change ON TWO THREADS (robot_project/modules/ros_navigation.py) *)
(***************************************************************************)

\* the threads on which RedisEventBus calls a callback: the thread that called
\* publish() in this process, and the listener thread (_listen_loop) for
\* events that arrive from the broker
HandlerThreads == {"publisher", "listener"}

\* ROSNavigationModule.__init__: current_mode "auto", is_enabled False
MhInit ==
    handlers = [current_mode |-> "auto",
                is_enabled |-> FALSE,
                pc |-> [t \in HandlerThreads |-> "idle"],
                mode |-> [t \in HandlerThreads |-> "None"]]

\* handle_mode_change up to the branch: mode = event.data.get('mode');
\* self.current_mode = mode; if mode == "auto"
thread_handle_mode_change(t, mode) ==
    /\ handlers.pc[t] = "idle"
    /\ handlers' = [handlers EXCEPT
                      !.current_mode = mode,
                      !.mode[t] = mode,
                      !.pc[t] = IF mode = "auto" THEN "enable" ELSE "disable"]
    /\ UNCHANGED mhOthers

\* enable_navigation, the test: if self.current_mode == "auto"
enable_navigation_test(h) == h.current_mode = "auto"

thread_enable_navigation(t) ==
    /\ handlers.pc[t] = "enable"
    /\ handlers' = [handlers EXCEPT
                      !.pc[t] = IF enable_navigation_test(handlers) THEN "enabling" ELSE "idle"]
    /\ UNCHANGED mhOthers

\* enable_navigation, the body: self.is_enabled = True; self.state = IDLE; publish
thread_enable_navigation_set(t) ==
    /\ handlers.pc[t] = "enabling"
    /\ handlers' = [handlers EXCEPT !.is_enabled = TRUE, !.pc[t] = "idle"]
    /\ UNCHANGED mhOthers

\* disable_navigation: self.is_enabled = False; self.state = IDLE; cancel; stop; publish
thread_disable_navigation(t) ==
    /\ handlers.pc[t] = "disable"
    /\ handlers' = [handlers EXCEPT !.is_enabled = FALSE, !.pc[t] = "idle"]
    /\ UNCHANGED mhOthers

MhNext ==
    \/ \E t \in HandlerThreads, mode \in ModeInputs : thread_handle_mode_change(t, mode)
    \/ \E t \in HandlerThreads : thread_enable_navigation(t)
    \/ \E t \in HandlerThreads : thread_enable_navigation_set(t)
    \/ \E t \in HandlerThreads : thread_disable_navigation(t)

vars == <<supVars, navVars, busVars, ebVars, pmVars, beVars, pubVars, mhVars>>

\* the supervisor's variables while another component is checked
SupIdle ==
    /\ config = ScenarioConfig
    /\ module_state = [m \in Modules |-> "stopped"]
    /\ process = [m \in Modules |-> "none"]
    /\ retry_count = [m \in Modules |-> 0]
    /\ crash_count = [m \in Modules |-> 0]
    /\ shutdown_event = FALSE
    /\ main = [pc |-> "start_all", i |-> 1, ret |-> "none"]
    /\ mon = [pc |-> "not_started", i |-> 1]
    /\ crashes = 0
    /\ stop_calls = [m \in Modules |-> 0]
    /\ restarts = [m \in Modules |-> 0]
    /\ perm_failed = {}
    /\ escalation = [on |-> FALSE, by |-> "none", running |-> {}]

InitSupervisor == SupInit /\ NavIdle /\ BusIdle /\ EbInit /\ PmInit /\ BackendInit /\ PubInit /\ MhInit
InitArbiter == NavInit /\ SupIdle /\ BusIdle /\ EbInit /\ PmInit /\ BackendInit /\ PubInit /\ MhInit
InitBus == BusInit /\ SupIdle /\ NavIdle /\ EbInit /\ PmInit /\ BackendInit /\ PubInit /\ MhInit
InitEventBus == EbInit /\ SupIdle /\ NavIdle /\ BusIdle /\ PmInit /\ BackendInit /\ PubInit /\ MhInit
InitProcessManager == PmInit /\ SupIdle /\ NavIdle /\ BusIdle /\ EbInit /\ BackendInit /\ PubInit /\ MhInit
InitBackends == BackendInit /\ SupIdle /\ NavIdle /\ BusIdle /\ EbInit /\ PmInit /\ PubInit /\ MhInit
InitPublisher == PubInit /\ BusInit /\ SupIdle /\ NavIdle /\ EbInit /\ PmInit /\ BackendInit /\ MhInit
InitModeHandlers ==
    MhInit /\ SupIdle /\ NavIdle /\ BusIdle /\ EbInit /\ PmInit /\ BackendInit /\ PubInit

SpecSupervisor == InitSupervisor /\ [][SupNext]_vars

\* the steps of the main thread and of the monitor thread; signals and
\* process deaths come from outside and are under no fairness
MainThread ==
    \/ \E s \in ScriptOutcomes : start_all_modules(s)
    \/ \E o \in SpawnOutcomes : start_all_spawn(o)
    \/ start_all_running
    \/ run_exit
    \/ main_shutdown

MonitorThread ==
    \/ mon_shutdown
    \/ monitor_while
    \/ monitor_check
    \/ \E s \in ScriptOutcomes : monitor_restart(s)
    \/ \E o \in SpawnOutcomes : monitor_spawn(o)
    \/ monitor_running
    \/ monitor_sleep

\* both threads keep being scheduled
SpecSupervisorFair ==
    InitSupervisor /\ [][SupNext]_vars /\ WF_vars(MainThread) /\ WF_vars(MonitorThread)

SpecArbiter == InitArbiter /\ [][NavNext]_vars

SpecBus == InitBus /\ [][BusNext]_vars

SpecEventBus == InitEventBus /\ [][EbNext]_vars

SpecProcessManager == InitProcessManager /\ [][PmNext]_vars

SpecBackends == InitBackends /\ [][BackendNext]_vars

SpecPublisher == InitPublisher /\ [][PubNext]_vars

SpecModeHandlers == InitModeHandlers /\ [][MhNext]_vars

----
\* C1: the supervisor restarts a crashed module at most max_retries times
\* before it reports the permanent failure, and a successful restart resets
\* retry_count to 0: the count of restart attempts since the last successful
\* start never exceeds max_retries, a running module has retry_count 0, and
\* "Max retries exceeded" is only reported with retry_count >= max_retries.
C1_BoundedRetries ==
    \A m \in Modules :
       /\ retry_count[m] <= config.max_retries[m]
       /\ restarts[m] <= config.max_retries[m]
       /\ module_state[m] = "running" => retry_count[m] = 0
       /\ m \in perm_failed => retry_count[m] >= config.max_retries[m]

\* a module that crashed and was restarted successfully, and a module that
\* was reported as permanently failed
C1_Witness ==
    /\ \E m \in Modules : crash_count[m] >= 1 /\ module_state[m] = "running" /\ is_alive(m)
    /\ perm_failed # {}

\* C2: when a critical module has failed permanently and the supervisor
\* process has terminated, every other module that was running has received
\* stop() exactly once.
C2_StopOnceThenExit ==
    (escalation.on /\ main.pc = "exited") =>
        \A m \in escalation.running : stop_calls[m] = 1

\* C3: in the scenario configuration face(critical=false,2), nav(critical=true,1),
\* voice(critical=false,2), the second crash of nav makes the supervisor issue
\* shutdown() (the critical escalation).
C3_SecondCrashEscalates ==
    (config = ScenarioConfig /\ crash_count["nav"] >= 2) =>
        (escalation.on /\ escalation.by = "nav")

----
\* a MovementCommand handled by any of the three arbiter implementations
MovementStep ==
    \E l, r \in MotorValues :
       \/ handle_movement_command(l, r)
       \/ modules_handle_movement_command(l, r)
       \/ run_nav_module_MoveCommand(l, r)

\* C4: an obstacle reading below the emergency threshold always results in
\* a (0,0) velocity output, also when a movement command was accepted around
\* it: once the reading has been handled the dispatched velocity is zero.
C4_EmergencyStopWins ==
    (nav_last.op = "laser" /\ nav_last.arg[1] < emergency_stop_distance) =>
        velocity = <<0, 0>>

\* C5: a MovementCommand handled while the mode is Auto leaves the velocity
\* command unchanged.
C5_AutoIgnoresMovement ==
    [][(MovementStep /\ current_mode \in {"auto", "AUTO"}) => velocity' = velocity]_vars

\* a command was handled in Auto while the robot was still moving
C5_Witness ==
    /\ nav_last.op = "move"
    /\ current_mode \in {"auto", "AUTO"}
    /\ velocity # <<0, 0>>

\* C6: ModeChanged{manual} handled while the mode was Auto and NavState
\* Navigating cancels the active goal, sets NavState to Idle and dispatches
\* zero velocity.
C6_ManualCancelsGoal ==
    [][(mode_change_apply /\ lt.mode = "manual" /\ lt.pre_mode = "auto"
                          /\ lt.pre_state = "navigating")
         => /\ goal' # "active"
            /\ goal = "active" => goal' = "cancelled"
            /\ nav_state' = "idle"
            /\ velocity' = <<0, 0>>]_vars

\* the switch to Manual just cancelled a goal that was in flight
C6_Witness ==
    /\ nav_last.op = "mode_change"
    /\ nav_last.arg = <<"manual", "auto", "navigating">>
    /\ goal = "cancelled"
    /\ nav_state = "idle"

C8_VelocityWithinLimits ==
    /\ velocity[1] \in (-max_linear_speed)..max_linear_speed
    /\ velocity[2] \in (-max_angular_speed)..max_angular_speed

\* C9: in every mode and NavState an obstacle reading below the emergency
\* threshold forces velocity (0,0), sets NavState to Paused and publishes
\* the emergency-stop status and voice advisory.
C9_UnconditionalOverride ==
    (nav_last.op = "laser" /\ nav_last.arg[1] < emergency_stop_distance) =>
        /\ velocity = <<0, 0>>
        /\ nav_state = "paused"
        /\ {"face_status:emergency_stop", "voice_output:emergency_stop"} \subseteq nav_last.out

----
\* C10: publish(kind, payload, source) followed immediately by
\* get_history(kind, 1) returns exactly the event just published.
C10_HistoryAfterPublish ==
    (/\ bus_last.op = "get_history"
     /\ bus_last.limit = 1
     /\ bus_last.event # <<>>)
        => bus_last.result = bus_last.event

----
\* C15: shutdown() is idempotent, also across the main thread (signal
\* handler) and the monitor thread: no module's stop sequence is executed
\* more than once.
C15_ShutdownIdempotent ==
    \A m \in Modules : stop_calls[m] <= 1

\* C16: once shutdown() has begun (shutdown_event is set) no module process
\* is started any more, and when a thread has finished the stop loop of
\* shutdown() no module process is left and every module is Stopped.
C16_ShutdownSafeAnyTime ==
    /\ [][shutdown_event =>
            \A m \in Modules : process[m] # "alive" => process'[m] # "alive"]_vars
    /\ []((main.pc = "sd_join" \/ mon.pc \in {"sd_join", "raised"}) =>
            \A m \in Modules : process[m] = "none" /\ module_state[m] = "stopped")

----
\* C17: navigate_to_goal is accepted only when the mode is Auto and NavState
\* is not Paused: a call made in another mode or while Paused returns False
\* and sends no goal.
C17_GoalRejectedWhenPaused ==
    [][(navigate_to_goal /\ (current_mode # "auto" \/ nav_state = "paused"))
         => (nav_last'.arg = <<FALSE>> /\ goal' = goal)]_vars

----
----
\* the callback invocations added by the step
NewCalls == SubSeq(calls', Len(calls) + 1, Len(calls'))

\* every callback subscribed to the event's type was called for event id by thread via
AllCalled(kind, id, via, source) ==
    \A h \in Range(SubscribersOf(kind)) : <<h, id, via, source>> \in Range(NewCalls)

\* C11: when a handler subscribed to a kind raises while handling an event,
\* every other handler subscribed to that kind is still invoked for the same
\* event, by publish and by the listener, and publish returns normally.
C11_HandlerIsolation ==
    [][/\ \A k \in Kinds, d \in Payloads :
            (publish(k, d, "test") /\ Range(SubscribersOf(k)) \cap Raising # {})
               => (bus_last'.ok /\ AllCalled(k, next_id, "publisher", "test"))
       /\ (listen_loop /\ Range(SubscribersOf(Head(inbox).event_type)) \cap Raising # {})
               => AllCalled(Head(inbox).event_type, Head(inbox).id, "listener",
                            Head(inbox).source)]_vars

\* publish returned normally after the raising callback h1 and then h2 were called
C11_Witness ==
    /\ bus_last.op = "publish"
    /\ bus_last.ok
    /\ \E i \in DOMAIN calls :
          /\ i + 1 \in DOMAIN calls
          /\ calls[i] = <<"h1", bus_last.event[1].id, "publisher", "test">>
          /\ calls[i + 1] = <<"h2", bus_last.event[1].id, "publisher", "test">>

\* C12: each subscribed handler is invoked at most once for each published
\* event; in particular never by the local dispatch and again by the listener.
C12_AtMostOnce ==
    \A i, j \in DOMAIN calls :
       (i # j) => ~(calls[i][1] = calls[j][1] /\ calls[i][2] = calls[j][2])

\* C14: the events of the single local publisher reach each subscriber in
\* publish order: no callback sees an earlier event after a later one.
C14_PublishOrder ==
    \A i, j \in DOMAIN calls :
       (i < j /\ calls[i][1] = calls[j][1] /\ calls[i][4] = "test" /\ calls[j][4] = "test")
          => calls[i][2] <= calls[j][2]

\* C18: when Redis is unavailable or its publish call fails, publish still
\* invokes every local subscriber of the event's type and returns without raising.
C18_BrokerFailureIsLocal ==
    [][\A k \in Kinds, d \in Payloads :
          (publish(k, d, "test") /\ (redis_client = "none" \/ ~broker_up))
             => (bus_last'.ok /\ AllCalled(k, next_id, "publisher", "test")
                 /\ inbox' = inbox)]_vars

\* publish returned normally and called a subscriber while the server was down
C18_Witness ==
    /\ bus_last.op = "publish"
    /\ bus_last.ok
    /\ redis_client = "connected"
    /\ ~broker_up
    /\ calls # <<>>
    /\ calls[Len(calls)][2] = bus_last.event[1].id
    /\ calls[Len(calls)][3] = "publisher"

\* C19: once two threads have each returned from subscribe(kind, h) for the
\* same kind, both callbacks are registered for it.
C19_NoLostRegistration ==
    \A k \in SubKinds :
       (\A t \in SubThreads : k \in sub[t].done /\ sub[t].pc = "idle")
          => \A t \in SubThreads : CallbackOf(t) \in Range(SubscribersOf(k))

----
\* C13: EventBus.publish does not wait for a slow subscriber: a full queue
\* drops the event for that subscriber only, every other queue receives the
\* event, and publish returns without error.
C13_DropOnFullOnly ==
    [][\A ty \in RobotEventTypes :
          EventBus_publish(ty) =>
             /\ eb_last'.ok
             /\ DOMAIN queues' = DOMAIN queues
             /\ \A i \in DOMAIN queues :
                   queues'[i] = IF Len(queues[i]) < QueueCapacity
                                  THEN Append(queues[i], RobotEvent(ty, eb_next))
                                  ELSE queues[i]]_vars

\* the first queue was full and dropped the event, the second one received it
C13_Witness ==
    /\ eb_last.op = "publish"
    /\ eb_last.ok
    /\ eb_last.dropped = {1}
    /\ Len(queues) = 2
    /\ queues[2] # <<>>
    /\ queues[2][Len(queues[2])].id = eb_last.id

----
\* C21: the bus keeps a bounded FIFO history of the published events, the
\* most recent ones in publish order: queried for all event types with the
\* default limit right after a publish, the history is not empty and its
\* newest (last) entry is the event just published.
C21_HistoryHoldsRecentEvents ==
    (/\ bus_last.op = "get_history"
     /\ bus_last.kind = "None"
     /\ bus_last.limit = 100
     /\ bus_last.event # <<>>)
        => /\ bus_last.result # <<>>
           /\ bus_last.result[Len(bus_last.result)] = bus_last.event[1]

----
\* C22: every change of a module's state follows the lifecycle
\* Stopped -> Starting -> Running -> {Failed -> Restarting -> Starting | Stopped}
\* (read generously: a start that fails goes Starting -> Failed, stop() may
\* end in Stopped from any state, and the monitor's Running -> Failed ->
\* Restarting is one step), and a module that is Failed with retry_count >=
\* max_retries is terminal: only stop() changes its state again.
C22_LifecycleFollowed ==
    [][\A m \in Modules :
         /\ module_state'[m] # module_state[m] =>
               \/ module_state'[m] = "stopped"
               \/ <<module_state[m], module_state'[m]>> \in
                     {<<"stopped", "starting">>, <<"starting", "running">>,
                      <<"starting", "failed">>, <<"running", "failed">>,
                      <<"running", "restarting">>, <<"restarting", "starting">>}
         /\ (module_state[m] = "failed" /\ retry_count[m] >= config.max_retries[m]) =>
               module_state'[m] \in {"failed", "stopped"}]_vars
----
\* a call of Module.start() on module m returns False in this step
StartFails(m) ==
    \/ /\ m = ModuleOrder[main.i]
       /\ start_all_modules("missing") \/ start_all_spawn("error")
    \/ /\ m = ModuleOrder[mon.i]
       /\ monitor_restart("missing") \/ monitor_spawn("error")

\* C23: whenever Module.start() fails (script missing or the spawn raises) it
\* leaves the module in state Failed, never in Stopped, Starting or Restarting.
C23_FailedStartIsFailed ==
    [][\A m \in Modules : StartFails(m) => module_state'[m] = "failed"]_vars

\* C24: when a monitoring cycle begins, no module whose restart attempt
\* failed is still Restarting, and a module with failed restart attempts
\* keeps its incremented retry_count.
C24_FailedRestartIsFailed ==
    mon.pc = "while" =>
        \A m \in Modules :
           /\ module_state[m] # "restarting"
           /\ restarts[m] > 0 => retry_count[m] > 0
----
\* C25: under fair scheduling a module whose crash was detected and that is
\* Failed with retry_count < max_retries (its restart attempt failed)
\* eventually is Running again or permanently failed, unless the supervisor
\* has begun to shut down: the failed restart is retried on a later cycle.
C25_RecoveryCompletes ==
    \A m \in Modules :
       (/\ crash_count[m] > 0
        /\ module_state[m] = "failed"
        /\ retry_count[m] < config.max_retries[m])
          ~> (module_state[m] = "running" \/ m \in perm_failed \/ shutdown_event)
----
\* a call of Module.stop() on module m, made by shutdown(), returns in this step
StopReturns(m) ==
    \/ /\ main.pc \in {"sd_stop", "sd_stopped"}
       /\ m = ModuleOrder[main.i]
       /\ main_shutdown
       /\ main'.pc # "sd_stopped"
    \/ /\ mon.pc \in {"sd_stop", "sd_stopped"}
       /\ m = ModuleOrder[mon.i]
       /\ mon_shutdown
       /\ mon'.pc # "sd_stopped"

\* C26: when Module.stop() returns, the module is Stopped and holds no
\* process handle, whatever its state was before the call.
C26_StopLeavesStopped ==
    [][\A m \in Modules :
         StopReturns(m) => (module_state'[m] = "stopped" /\ process'[m] = "none")]_vars
----
\* the monitoring loop detects the death of module b in this step
DetectsCrash(b) ==
    /\ monitor_check
    /\ crash_count'[b] = crash_count[b] + 1

\* C27: while module a is Restarting and the loop waits out a's retry_delay,
\* the monitoring loop can still detect the death of another Running module
\* b whose process has died.
C27_RetryDelayDoesNotSerialize ==
    \A a, b \in Modules :
       (/\ ProcessUp
        /\ mon.pc = "retry_delay"
        /\ ModuleOrder[mon.i] = a
        /\ module_state[a] = "restarting"
        /\ b # a
        /\ module_state[b] = "running"
        /\ ~is_alive(b))
          => ENABLED DetectsCrash(b)
----
\* a process death of module m, or a step of the monitoring loop on module m
HandlesModule(m) ==
    \/ Crash(m)
    \/ /\ mon.pc \in {"scan", "retry_delay", "rs_spawn", "rs_running"}
       /\ ModuleOrder[mon.i] = m
       /\ \/ monitor_check
          \/ \E s \in ScriptOutcomes : monitor_restart(s)
          \/ \E o \in SpawnOutcomes : monitor_spawn(o)
          \/ monitor_running

\* C28: the crash, restart or permanent failure of a non-critical module
\* leaves state, process, retry_count and crash_count of every other module
\* unchanged and does not call shutdown().
C28_NonCriticalFailureIsLocal ==
    [][\A m \in Modules :
         (~config.critical[m] /\ HandlesModule(m)) =>
            /\ \A o \in Modules \ {m} :
                  /\ module_state'[o] = module_state[o]
                  /\ process'[o] = process[o]
                  /\ retry_count'[o] = retry_count[o]
                  /\ crash_count'[o] = crash_count[o]
            /\ mon'.pc = "sd_check" => mon.pc = "sd_check"
            /\ shutdown_event' = shutdown_event
            /\ escalation' = escalation]_vars

\* a non-critical module has failed permanently, a sibling is still Running
\* and no shutdown has begun
C28_Witness ==
    \E m \in Modules :
       /\ ~config.critical[m]
       /\ m \in perm_failed
       /\ module_state[m] = "failed"
       /\ \E o \in Modules \ {m} : module_state[o] = "running" /\ is_alive(o)
       /\ ~shutdown_event
       /\ mon.pc \in {"scan", "sleep5", "while"}
----
\* C29: ProcessManager.monitor_loop restarts any one module process at most
\* a bounded number of times (the retry limit); a module that keeps dying is
\* no longer restarted after that.
C29_ProcessRestartsBounded ==
    \A n \in DOMAIN processes : processes[n].restarts <= DefaultMaxRetries
----
\* C30: the NavState lifecycle, in the two points the claim singles out: a
\* warning-level obstacle reading or a goal-completion callback never moves
\* the arbiter out of Paused, and AvoidingObstacle is entered only from
\* Navigating.
C30_NavLifecycle ==
    [][impl = "robot_project" =>
         /\ (/\ nav_state = "paused"
             /\ \/ laser_react /\ laser.min_distance >= emergency_stop_distance
                \/ \E status \in {"SUCCEEDED", "ABORTED", "PREEMPTED"} :
                      goal_done_callback(status))
               => nav_state' = "paused"
         /\ (nav_state' = "avoiding_obstacle" /\ nav_state # "avoiding_obstacle")
               => nav_state = "navigating"]_vars
----
\* C31: after a mode change away from Auto has cancelled the active goal and
\* set NavState to Idle, the completion callback of the cancelled goal leaves
\* NavState at Idle.
C31_LateCallbackIgnored ==
    [][(/\ impl = "robot_project"
        /\ nav_last.op = "mode_change"
        /\ ~is_enabled
        /\ goal = "cancelled"
        /\ nav_state = "idle"
        /\ \E status \in {"SUCCEEDED", "ABORTED", "PREEMPTED"} : goal_done_callback(status))
          => nav_state' = "idle"]_vars
----
\* C32: a ModeChanged{Auto} handled while the arbiter is already in Auto
\* leaves NavState and the goal unchanged.
C32_RepeatedAutoIsNoOp ==
    [][(\/ mode_change_apply /\ lt.mode = "auto" /\ lt.pre_mode = "auto"
        \/ run_nav_module_ModeSwitch("AUTO") /\ current_mode = "AUTO")
          => (nav_state' = nav_state /\ goal' = goal)]_vars
----
\* emergency threshold <= d < warning threshold
WarningLevel(d) == emergency_stop_distance <= d /\ d < min_obstacle_distance

\* with autonomous navigation enabled, an obstacle reading at warning level is
\* handled in this step: by _laser_callback (ROS backend) or by
\* check_obstacles in the run() loop (simulation)
WarningReading ==
    /\ impl = "robot_project"
    /\ is_enabled
    /\ \/ laser_react /\ WarningLevel(laser.min_distance)
       \/ /\ ~ros
          /\ \E ob \in SimObstacles :
                run(ob) /\ ob.detected /\ WarningLevel(ob.min_distance)

\* C33: an obstacle reading at warning level moves NavState to
\* AvoidingObstacle and publishes an obstacle event, and leaves the velocity
\* command and the goal unchanged.
C33_WarningKeepsMotion ==
    [][WarningReading =>
         /\ nav_state' = "avoiding_obstacle"
         /\ nav_last'.out \cap {"obstacle_detected:warning", "obstacle_detected"} # {}
         /\ velocity' = velocity
         /\ goal' = goal]_vars
----
\* C34: fed the same inputs, the arbiter on the simulated backend and on the
\* hardware backend show the same NavState, the same accepted/rejected result
\* and the same published event types.
C34_BackendsEquivalent ==
    /\ hardware.state = simulated.state
    /\ hardware.result = simulated.result
    /\ hardware.out = simulated.out
----
\* C35: publish returns without waiting for the handlers: the publishing
\* thread is never held inside a handler that does not return.
C35_PublishNeverBlocksOnHandler ==
    \A k \in DOMAIN pub : pub[k].pc # "blocked"
----
\* a step of the publishing thread inside publish()
PublisherStep ==
    \/ publish_return
    \/ \E o \in CallbackOutcomes, k \in Kinds : publish_callback(o, k)

\* the callback has been called for the event numbered id
Invoked(callback, id) ==
    \E c \in DOMAIN calls : calls[c][1] = callback /\ calls[c][2] = id

\* C36: a handler that re-enters the bus (publish or subscribe from inside
\* its callback) does not deadlock: while a publish() call is in progress
\* and no handler is stuck, the publishing thread can take a step, and when
\* a publish() call returns (nested or outer) every handler that was
\* registered for its event type at the call has been invoked for its event.
C36_ReentrantPublishCompletes ==
    /\ []((pub # <<>> /\ Top.pc # "blocked") => ENABLED PublisherStep)
    /\ [][publish_return =>
             \A j \in DOMAIN Top.at : Invoked(Top.at[j], Top.event.id)]_vars

\* an outer publish has returned after a handler published a nested event
\* that was itself delivered to a handler, and after a handler subscribed h2
C36_Witness ==
    /\ pub = <<>>
    /\ bus_last.op = "publish"
    /\ bus_last.event[1].source = "test"
    /\ \E c \in DOMAIN calls : calls[c][4] \in Handlers /\ calls[c][2] > bus_last.event[1].id
    /\ Invoked("h1", bus_last.event[1].id)
    /\ Invoked("h2", bus_last.event[1].id)

----
\* the stop command of BatteryModule.handle_critical_battery and of the REST
\* endpoint stop_movement: MOVEMENT_COMMAND {'left_motor': 0, 'right_motor': 0},
\* handled by the arbiter subscribed to MOVEMENT_COMMAND
StopCommand ==
    \/ handle_movement_command(0, 0)
    \/ modules_handle_movement_command(0, 0)

\* C37: once the arbiter has handled a collaborator's stop command, the
\* velocity it dispatched last is (0, 0), in Manual as in Auto mode.
C37_StopCommandZeroesVelocity ==
    [][StopCommand => velocity' = <<0, 0>>]_vars
----
\* C38: the arbiter's mode is always Manual or Auto: a ModeChanged event
\* whose payload has no mode or an unrecognised one never stores a mode
\* outside {manual, auto}.
C38_ModeIsManualOrAuto ==
    impl \in {"robot_project", "modules"} => current_mode \in {"manual", "auto"}
----
\* no handle_mode_change is in progress on either thread
HandlersIdle == \A t \in HandlerThreads : handlers.pc[t] = "idle"

\* C39: at most one motion authority: whenever the ModeChanged handlers have
\* finished, also after two of them ran interleaved on the publishing thread
\* and on the listener thread, is_enabled is true only if the mode is auto.
C39_EnabledOnlyInAuto ==
    (HandlersIdle /\ handlers.is_enabled) => handlers.current_mode = "auto"
====
